---- MODULE Spec2Model ----
(***************************************************************************)
(* Model of @corvid-agent/env (src/src/index.ts): the type parsers, the    *)
(* single-variable resolver env(), the schema normaliser normalizeConfig() *)
(* and the aggregator envSchema().                                         *)
(*                                                                         *)
(* JavaScript strings that the code inspects are sequences of one-letter   *)
(* strings (<<"-", "5">> is "-5"), so that trimming, lower-casing and      *)
(* numeric parsing are computed letter by letter.  Error messages are TLA+ *)
(* strings built by concatenation, as the template literals build them.    *)
(* JavaScript numbers are exact decimals num/den (den a power of ten) or   *)
(* NaN / +Infinity / -Infinity; every literal of the model is short enough *)
(* for the double it denotes to be exact, and -0 is identified with 0.     *)
(***************************************************************************)
EXTENDS Integers, Sequences, FiniteSets, TLC

(***************************************************************************)
(* Letters and strings                                                     *)
(***************************************************************************)
UpperLetters ==
    <<"A","B","C","D","E","F","G","H","I","J","K","L","M",
      "N","O","P","Q","R","S","T","U","V","W","X","Y","Z">>

LowerLetters ==
    <<"a","b","c","d","e","f","g","h","i","j","k","l","m",
      "n","o","p","q","r","s","t","u","v","w","x","y","z">>

DecimalDigits == <<"0","1","2","3","4","5","6","7","8","9">>

\* String.prototype.toLowerCase on one letter
LowerChar(c) ==
    IF \E i \in 1..Len(UpperLetters) : UpperLetters[i] = c
    THEN LowerLetters[CHOOSE i \in 1..Len(UpperLetters) : UpperLetters[i] = c]
    ELSE c

\* String.prototype.toUpperCase on one letter
UpperChar(c) ==
    IF \E i \in 1..Len(LowerLetters) : LowerLetters[i] = c
    THEN UpperLetters[CHOOSE i \in 1..Len(LowerLetters) : LowerLetters[i] = c]
    ELSE c

ToLowerCase(s) == [i \in 1..Len(s) |-> LowerChar(s[i])]

ToUpperCase(s) == [i \in 1..Len(s) |-> UpperChar(s[i])]

\* the white space and line terminators that trim() and Number() strip
IsWhiteSpace(c) == c \in {" ", "\t", "\n", "\r"}

RECURSIVE TrimStart(_)
TrimStart(s) ==
    IF s # <<>> /\ IsWhiteSpace(Head(s)) THEN TrimStart(Tail(s)) ELSE s

RECURSIVE TrimEnd(_)
TrimEnd(s) ==
    IF s # <<>> /\ IsWhiteSpace(s[Len(s)])
    THEN TrimEnd(SubSeq(s, 1, Len(s) - 1))
    ELSE s

Trim(s) == TrimEnd(TrimStart(s))

\* the TLA+ string a JavaScript string prints as inside a template literal
RECURSIVE Text(_)
Text(s) == IF s = <<>> THEN "" ELSE Head(s) \o Text(Tail(s))

\* Array.prototype.join over strings
RECURSIVE Join(_, _)
Join(items, sep) ==
    IF items = <<>> THEN ""
    ELSE IF Len(items) = 1 THEN Text(items[1])
    ELSE Text(items[1]) \o sep \o Join(Tail(items), sep)

\* Array.prototype.includes
Includes(items, x) == \E i \in 1..Len(items) : items[i] = x

Drop(s, n) == SubSeq(s, n + 1, Len(s))

\* String.prototype.slice(i - 1, j): the letters i..j that s has
Slice(s, i, j) ==
    LET lo == IF i < 1 THEN 1 ELSE i
        hi == IF j > Len(s) THEN Len(s) ELSE j
    IN  [k \in 1..(hi - lo + 1) |-> s[k + lo - 1]]

\* the letter at index i, or "" past the end
At(s, i) == IF i >= 1 /\ i <= Len(s) THEN s[i] ELSE ""

(***************************************************************************)
(* Numbers                                                                 *)
(***************************************************************************)
RECURSIVE Pow(_, _)
Pow(b, e) == IF e <= 0 THEN 1 ELSE b * Pow(b, e - 1)

RECURSIVE Reduce(_, _)
Reduce(num, den) ==
    IF den > 1 /\ num % 10 = 0 THEN Reduce(num \div 10, den \div 10)
    ELSE [k |-> "fin", num |-> num, den |-> den]

Fin(n) == [k |-> "fin", num |-> n, den |-> 1]
NaN == [k |-> "nan", num |-> 0, den |-> 1]
PosInfinity == [k |-> "inf", num |-> 1, den |-> 1]
NegInfinity == [k |-> "inf", num |-> -1, den |-> 1]

\* the global isNaN on a number
IsNaN(x) == x.k = "nan"

\* Number.isInteger
IsInteger(x) == x.k = "fin" /\ x.den = 1

\* x < y for y an integer constant (NaN compares false)
LessThanInt(x, y) ==
    CASE x.k = "nan" -> FALSE
      [] x.k = "inf" -> x.num < 0
      [] OTHER -> x.num < y * x.den

\* x > y for y an integer constant (NaN compares false)
GreaterThanInt(x, y) ==
    CASE x.k = "nan" -> FALSE
      [] x.k = "inf" -> x.num > 0
      [] OTHER -> x.num > y * x.den

\* Math.abs on a number
Abs(x) ==
    CASE x.k = "nan" -> NaN
      [] x.k = "inf" -> PosInfinity
      [] OTHER -> [x EXCEPT !.num = IF x.num < 0 THEN -x.num ELSE x.num]

IsDigit(c) == Includes(DecimalDigits, c)

DigitValue(c) == (CHOOSE i \in 1..Len(DecimalDigits) : DecimalDigits[i] = c) - 1

HexDigits == <<"0","1","2","3","4","5","6","7","8","9","a","b","c","d","e","f">>

\* the value of a digit in the given radix, or -1
RadixDigitValue(c, radix) ==
    LET l == LowerChar(c) IN
    IF \E i \in 1..radix : HexDigits[i] = l
    THEN (CHOOSE i \in 1..radix : HexDigits[i] = l) - 1
    ELSE -1

\* how many leading letters of s are decimal digits
RECURSIVE DigitsPrefixLen(_)
DigitsPrefixLen(s) ==
    IF s # <<>> /\ IsDigit(Head(s)) THEN 1 + DigitsPrefixLen(Tail(s)) ELSE 0

\* how many letters of s from index i on are decimal digits
DigitsAt(s, i) == IF i > Len(s) THEN 0 ELSE DigitsPrefixLen(Drop(s, i - 1))

\* the integer a run of decimal digits denotes (the empty run denotes 0)
RECURSIVE DigitsValue(_)
DigitsValue(s) ==
    IF s = <<>> THEN 0
    ELSE DigitsValue(SubSeq(s, 1, Len(s) - 1)) * 10 + DigitValue(s[Len(s)])

RECURSIVE RadixValue(_, _)
RadixValue(s, radix) ==
    IF s = <<>> THEN 0
    ELSE RadixValue(SubSeq(s, 1, Len(s) - 1), radix) * radix
         + RadixDigitValue(s[Len(s)], radix)

\* the radix of a 0x / 0o / 0b literal, or 0
RadixOf(s) ==
    IF Len(s) >= 2 /\ s[1] = "0"
    THEN CASE LowerChar(s[2]) = "x" -> 16
           [] LowerChar(s[2]) = "o" -> 8
           [] LowerChar(s[2]) = "b" -> 2
           [] OTHER -> 0
    ELSE 0

\* mant * 10^(ex - fl)
DecimalValue(mant, fl, ex) ==
    IF ex >= fl THEN Fin(mant * Pow(10, ex - fl)) ELSE Reduce(mant, Pow(10, fl - ex))

\* the digits of the mantissa: il before the point, fl after it
MantissaDigits(s, il, fl) == Slice(s, 1, il) \o Slice(s, il + 2, il + 1 + fl)

\* the exponent digits start at q and must run to the end of s
DecimalExponent(s, il, fl, q, neg) ==
    IF DigitsAt(s, q) = 0 \/ q + DigitsAt(s, q) - 1 # Len(s) THEN NaN
    ELSE DecimalValue(DigitsValue(MantissaDigits(s, il, fl)), fl,
                      (IF neg THEN -1 ELSE 1) * DigitsValue(Slice(s, q, Len(s))))

\* the mantissa ends before p: the end of s, or an exponent part
DecimalTail(s, il, fl, p) ==
    IF il + fl = 0 THEN NaN
    ELSE IF p > Len(s) THEN DecimalValue(DigitsValue(MantissaDigits(s, il, fl)), fl, 0)
    ELSE IF LowerChar(At(s, p)) = "e"
    THEN DecimalExponent(s, il, fl,
                         IF At(s, p + 1) \in {"+", "-"} THEN p + 2 ELSE p + 1,
                         At(s, p + 1) = "-")
    ELSE NaN

\* il digits, then a point and fl digits
DecimalFraction(s, il, fl) == DecimalTail(s, il, fl, il + 2 + fl)

\* StrUnsignedDecimalLiteral without "Infinity":
\* digits [. digits] [e [+-] digits], with at least one mantissa digit
DecimalInteger(s, il) ==
    IF At(s, il + 1) = "." THEN DecimalFraction(s, il, DigitsAt(s, il + 2))
    ELSE DecimalTail(s, il, 0, il + 1)

UnsignedDecimal(s) == DecimalInteger(s, DigitsPrefixLen(s))

Negate(x) == IF x.k = "nan" THEN x ELSE [x EXCEPT !.num = -x.num]

InfinityLetters == <<"I","n","f","i","n","i","t","y">>

Magnitude(body) == IF body = InfinityLetters THEN PosInfinity ELSE UnsignedDecimal(body)

Signed(neg, mag) == IF neg THEN Negate(mag) ELSE mag

\* a 0x / 0o / 0b literal: at least one digit, all of the radix
RadixLiteral(ds, radix) ==
    IF ds # <<>> /\ \A i \in 1..Len(ds) : RadixDigitValue(ds[i], radix) >= 0
    THEN Fin(RadixValue(ds, radix))
    ELSE NaN

\* StringToNumber of ECMA-262 on a trimmed string
TrimmedToNumber(s) ==
    IF s = <<>> THEN Fin(0)
    ELSE IF RadixOf(s) # 0 THEN RadixLiteral(Drop(s, 2), RadixOf(s))
    ELSE Signed(Head(s) = "-", Magnitude(IF Head(s) \in {"+", "-"} THEN Tail(s) ELSE s))

\* Number(raw) for a string
StringToNumber(raw) == TrimmedToNumber(Trim(raw))

(***************************************************************************)
(* JavaScript values: one record shape for every value, the unused fields  *)
(* held at a fixed filler, so that any two values can be compared.         *)
(***************************************************************************)
Undefined == [t |-> "undefined", b |-> FALSE, n |-> Fin(0), s |-> <<>>]
Null == [t |-> "null", b |-> FALSE, n |-> Fin(0), s |-> <<>>]
Bool(b) == [t |-> "boolean", b |-> b, n |-> Fin(0), s |-> <<>>]
Num(n) == [t |-> "number", b |-> FALSE, n |-> n, s |-> <<>>]
Str(s) == [t |-> "string", b |-> FALSE, n |-> Fin(0), s |-> s]
\* an array or object produced by JSON.parse, identified by its source text
Obj(s) == [t |-> "object", b |-> FALSE, n |-> Fin(0), s |-> s]

\* ToNumber, as Math.abs and the > operator apply it to their operand
ToNumber(v) ==
    CASE v.t = "number" -> v.n
      [] v.t = "string" -> StringToNumber(v.s)
      [] v.t = "boolean" -> IF v.b THEN Fin(1) ELSE Fin(0)
      [] v.t = "null" -> Fin(0)
      [] OTHER -> NaN

(***************************************************************************)
(* Errors (src/src/index.ts 48-69) and the outcome of a call               *)
(***************************************************************************)
RECURSIVE JoinText(_, _)
JoinText(items, sep) ==
    IF items = <<>> THEN ""
    ELSE IF Len(items) = 1 THEN items[1]
    ELSE items[1] \o sep \o JoinText(Tail(items), sep)

\* new EnvError(key, errors)
EnvError(key, errors) ==
    [name    |-> "EnvError",
     key     |-> key,
     errors  |-> errors,
     message |-> "Environment variable \"" \o key \o "\": " \o JoinText(errors, "; ")]

\* a fault that is not an EnvError (a TypeError, an Error thrown by user code)
Fault(what) == [name |-> "Error", key |-> "", errors |-> <<>>, message |-> what]

NoError == [name |-> "", key |-> "", errors |-> <<>>, message |-> ""]

\* new EnvValidationError(errors)
EnvValidationError(errors) ==
    [name    |-> "EnvValidationError",
     errors  |-> errors,
     message |-> "Environment validation failed:\n"
                 \o JoinText([i \in 1..Len(errors) |-> errors[i].message], "\n")]

\* a call that returned value, having made the user-function calls `calls`
Return(value, calls) ==
    [kind |-> "return", value |-> value, error |-> NoError, calls |-> calls]

\* a call that threw error, having made the user-function calls `calls`
Throw(error, calls) ==
    [kind |-> "throw", value |-> Undefined, error |-> error, calls |-> calls]

Returned(o) == o.kind = "return"
ThrewEnvError(o) == o.kind = "throw" /\ o.error.name = "EnvError"
ThrewFault(o) == o.kind = "throw" /\ o.error.name # "EnvError"

(***************************************************************************)
(* Parsers (src/src/index.ts 73-115)                                       *)
(***************************************************************************)
parseString(raw) == Return(Str(raw), <<>>)

\* parseNumber once num = Number(raw) is known
NumberOrError(num, raw, key) ==
    IF IsNaN(num)
    THEN Throw(EnvError(key, <<"Expected a number, got \"" \o Text(raw) \o "\"">>), <<>>)
    ELSE Return(Num(num), <<>>)

parseNumber(raw, key) == NumberOrError(StringToNumber(raw), raw, key)

Letters(w) ==
    CASE w = "true" -> <<"t","r","u","e">>
      [] w = "1" -> <<"1">>
      [] w = "yes" -> <<"y","e","s">>
      [] w = "on" -> <<"o","n">>
      [] w = "false" -> <<"f","a","l","s","e">>
      [] w = "0" -> <<"0">>
      [] w = "no" -> <<"n","o">>
      [] w = "off" -> <<"o","f","f">>
      [] w = "null" -> <<"n","u","l","l">>

TrueLiterals == <<Letters("true"), Letters("1"), Letters("yes"), Letters("on")>>

FalseLiterals == <<Letters("false"), Letters("0"), Letters("no"), Letters("off")>>

\* parseBoolean once lower is known
BooleanOrError(lower, raw, key) ==
    IF Includes(TrueLiterals, lower) THEN Return(Bool(TRUE), <<>>)
    ELSE IF Includes(FalseLiterals, lower) THEN Return(Bool(FALSE), <<>>)
    ELSE Throw(EnvError(key, <<"Expected a boolean, got \"" \o Text(raw)
                 \o "\". Use true/false, 1/0, yes/no, or on/off">>), <<>>)

\* a parseBoolean that lower-cases but does not trim
parseBooleanNoTrim(raw, key) == BooleanOrError(ToLowerCase(raw), raw, key)

parseBoolean(raw, key) == BooleanOrError(Trim(ToLowerCase(raw)), raw, key)

MaxPort == 65535

\* parsePort once num = Number(raw) is known
PortOrError(num, raw, key) ==
    IF IsNaN(num) \/ ~IsInteger(num) \/ LessThanInt(num, 0) \/ GreaterThanInt(num, MaxPort)
    THEN Throw(EnvError(key, <<"Expected a port (0-65535), got \"" \o Text(raw) \o "\"">>), <<>>)
    ELSE Return(Num(num), <<>>)

parsePort(raw, key) == PortOrError(StringToNumber(raw), raw, key)

(***************************************************************************)
(* JSON.parse (src/src/index.ts 94).  The text is checked against the JSON *)
(* grammar from an index; each ...End operator gives the index after what  *)
(* it read, or 0 when the text does not match.                             *)
(***************************************************************************)
RECURSIVE SkipWs(_, _)
SkipWs(s, i) == IF IsWhiteSpace(At(s, i)) THEN SkipWs(s, i + 1) ELSE i

JsonExponentDigitsEnd(s, d) == IF DigitsAt(s, d) = 0 THEN 0 ELSE d + DigitsAt(s, d)

JsonExponentEnd(s, c) ==
    IF LowerChar(At(s, c)) = "e"
    THEN JsonExponentDigitsEnd(s, IF At(s, c + 1) \in {"+", "-"} THEN c + 2 ELSE c + 1)
    ELSE c

JsonFractionEnd(s, b) ==
    IF At(s, b) # "." THEN JsonExponentEnd(s, b)
    ELSE IF DigitsAt(s, b + 1) = 0 THEN 0
    ELSE JsonExponentEnd(s, b + 1 + DigitsAt(s, b + 1))

\* a single 0, or digits that do not start with 0
JsonIntegerEnd(s, a) ==
    IF At(s, a) = "0" THEN JsonFractionEnd(s, a + 1)
    ELSE IF DigitsAt(s, a) = 0 THEN 0
    ELSE JsonFractionEnd(s, a + DigitsAt(s, a))

JsonNumberEnd(s, i) == JsonIntegerEnd(s, IF At(s, i) = "-" THEN i + 1 ELSE i)

IsHexDigit(c) == c # "" /\ RadixDigitValue(c, 16) >= 0

RECURSIVE JsonStringScan(_, _)
JsonStringScan(s, j) ==
    IF At(s, j) \in {"", "\t", "\n", "\r"} THEN 0
    ELSE IF At(s, j) = "\"" THEN j + 1
    ELSE IF At(s, j) # "\\" THEN JsonStringScan(s, j + 1)
    ELSE IF At(s, j + 1) = "u" /\ \A k \in 2..5 : IsHexDigit(At(s, j + k))
    THEN JsonStringScan(s, j + 6)
    ELSE IF At(s, j + 1) \in {"\"", "\\", "/", "b", "f", "n", "r", "t"}
    THEN JsonStringScan(s, j + 2)
    ELSE 0

JsonStringEnd(s, i) == IF At(s, i) = "\"" THEN JsonStringScan(s, i + 1) ELSE 0

\* the letter an escape sequence denotes; \b and \uXXXX, which have no TLA+
\* letter, are denoted by the text of the escape itself
Unescape(s, j) ==
    CASE At(s, j + 1) = "n" -> "\n"
      [] At(s, j + 1) = "t" -> "\t"
      [] At(s, j + 1) = "r" -> "\r"
      [] At(s, j + 1) = "f" -> "\f"
      [] At(s, j + 1) = "b" -> "\\b"
      [] At(s, j + 1) = "u" -> Text(Slice(s, j, j + 5))
      [] OTHER -> At(s, j + 1)

\* the contents of the string literal that starts at j - 1, unescaped
RECURSIVE JsonStringValue(_, _)
JsonStringValue(s, j) ==
    IF At(s, j) \in {"\"", ""} THEN <<>>
    ELSE IF At(s, j) = "\\"
    THEN <<Unescape(s, j)>> \o JsonStringValue(s, IF At(s, j + 1) = "u" THEN j + 6 ELSE j + 2)
    ELSE <<At(s, j)>> \o JsonStringValue(s, j + 1)

LiteralAt(s, i, w) == Slice(s, i, i + Len(Letters(w)) - 1) = Letters(w)

RECURSIVE JsonValueEnd(_, _)
RECURSIVE JsonElementsEnd(_, _)
RECURSIVE JsonMembersEnd(_, _)

\* after "[" or "{" and white space: the closing letter, or the first item
JsonItemsEnd(s, k, close) ==
    IF At(s, k) = close THEN k + 1
    ELSE IF close = "]" THEN JsonElementsEnd(s, k)
    ELSE JsonMembersEnd(s, k)

JsonValueEnd(s, i) ==
    CASE At(s, i) = "{" -> JsonItemsEnd(s, SkipWs(s, i + 1), "}")
      [] At(s, i) = "[" -> JsonItemsEnd(s, SkipWs(s, i + 1), "]")
      [] At(s, i) = "\"" -> JsonStringEnd(s, i)
      [] LiteralAt(s, i, "true") -> i + 4
      [] LiteralAt(s, i, "false") -> i + 5
      [] LiteralAt(s, i, "null") -> i + 4
      [] OTHER -> JsonNumberEnd(s, i)

\* after an item that ended before m and white space: "," and more, or the end
JsonSeparator(s, m, close) ==
    IF At(s, m) = close THEN m + 1
    ELSE IF At(s, m) # "," THEN 0
    ELSE IF close = "]" THEN JsonElementsEnd(s, SkipWs(s, m + 1))
    ELSE JsonMembersEnd(s, SkipWs(s, m + 1))

\* after an item that ended before e (0: it did not match)
JsonAfterItem(s, e, close) == IF e = 0 THEN 0 ELSE JsonSeparator(s, SkipWs(s, e), close)

JsonElementsEnd(s, i) == JsonAfterItem(s, JsonValueEnd(s, i), "]")

\* after a member's key, which ended before k: ":" and the member's value
JsonMemberValueEnd(s, k) ==
    IF k = 0 \/ At(s, SkipWs(s, k)) # ":" THEN 0
    ELSE JsonValueEnd(s, SkipWs(s, SkipWs(s, k) + 1))

JsonMembersEnd(s, i) == JsonAfterItem(s, JsonMemberValueEnd(s, JsonStringEnd(s, i)), "}")

\* the value that starts at i ends the text
JsonEndsText(raw, e) == e # 0 /\ SkipWs(raw, e) = Len(raw) + 1

\* whether JSON.parse(raw) returns rather than throws a SyntaxError
IsJson(raw) == JsonEndsText(raw, JsonValueEnd(raw, SkipWs(raw, 1)))

\* the value of the JSON text that starts at i
JsonValueAt(raw, i) ==
    CASE At(raw, i) \in {"{", "["} -> Obj(Slice(raw, i, JsonValueEnd(raw, i) - 1))
      [] At(raw, i) = "\"" -> Str(JsonStringValue(raw, i + 1))
      [] LiteralAt(raw, i, "true") -> Bool(TRUE)
      [] LiteralAt(raw, i, "false") -> Bool(FALSE)
      [] LiteralAt(raw, i, "null") -> Null
      [] OTHER -> Num(StringToNumber(Slice(raw, i, JsonNumberEnd(raw, i) - 1)))

\* JSON.parse(raw) for a raw that IsJson
JsonValue(raw) == JsonValueAt(raw, SkipWs(raw, 1))

parseJson(raw, key) ==
    IF IsJson(raw) THEN Return(JsonValue(raw), <<>>)
    ELSE Throw(EnvError(key, <<"Expected valid JSON, got \"" \o Text(raw) \o "\"">>), <<>>)

(***************************************************************************)
(* new URL(raw) (src/src/index.ts 102), with no base: the WHATWG parser's  *)
(* decision for a scheme, an authority of userinfo, host and port, and an  *)
(* opaque rest.  IPv4 and IPv6 host validation is left out: no literal of  *)
(* the model has a numeric or bracketed host.                              *)
(***************************************************************************)
IsAlpha(c) == Includes(LowerLetters, c) \/ Includes(UpperLetters, c)

\* the index of the ":" that ends the scheme, or 0
RECURSIVE SchemeEnd(_, _)
SchemeEnd(s, i) ==
    IF At(s, i) = ":" THEN i
    ELSE IF IsAlpha(At(s, i)) \/ IsDigit(At(s, i)) \/ At(s, i) \in {"+", "-", "."}
    THEN SchemeEnd(s, i + 1)
    ELSE 0

SpecialSchemes == {"http", "https", "ws", "wss", "ftp"}

ForbiddenHostLetters ==
    {" ", "\t", "\n", "\r", "#", "/", ":", "<", ">", "?", "@", "[", "\\", "]", "^", "|", "%"}

RECURSIVE SkipSlashes(_, _)
SkipSlashes(s, i) == IF At(s, i) \in {"/", "\\"} THEN SkipSlashes(s, i + 1) ELSE i

\* the index after the authority that starts at i
RECURSIVE AuthorityEnd(_, _, _)
AuthorityEnd(s, i, stops) ==
    IF i > Len(s) \/ s[i] \in stops THEN i ELSE AuthorityEnd(s, i + 1, stops)

\* the index of the last occurrence of c in s, or 0
LastIndexOf(s, c) ==
    IF \E i \in 1..Len(s) : s[i] = c
    THEN CHOOSE i \in 1..Len(s) : s[i] = c /\ \A j \in (i + 1)..Len(s) : s[j] # c
    ELSE 0

\* the host and the port are well formed
HostPortOk(host, port, needsHost) ==
    /\ needsHost => host # <<>>
    /\ \A i \in 1..Len(host) : host[i] \notin ForbiddenHostLetters
    /\ \A i \in 1..Len(port) : IsDigit(port[i])
    /\ DigitsValue(port) <= MaxPort

\* host[:port], the ":" at index c (0: no port); a special scheme needs a host
HostPort(hp, c, special) ==
    IF c = 0 THEN HostPortOk(hp, <<>>, special)
    ELSE HostPortOk(Slice(hp, 1, c - 1), Drop(hp, c), TRUE)

\* [userinfo@]host[:port]
Authority(auth, at, special) == HostPort(Drop(auth, at), LastIndexOf(Drop(auth, at), ":"), special)

\* the authority runs from start to the first of stops
AuthorityAt(s, start, stops, special) ==
    Authority(Slice(s, start, AuthorityEnd(s, start, stops) - 1),
              LastIndexOf(Slice(s, start, AuthorityEnd(s, start, stops) - 1), "@"),
              special)

\* what follows the scheme, whose ":" is at colon
AfterScheme(s, colon, scheme) ==
    IF scheme = "file" THEN TRUE
    ELSE IF scheme \in SpecialSchemes
    THEN AuthorityAt(s, SkipSlashes(s, colon + 1), {"/", "\\", "?", "#"}, TRUE)
    ELSE IF Slice(s, colon + 1, colon + 2) = <<"/", "/">>
    THEN AuthorityAt(s, colon + 3, {"/", "?", "#"}, FALSE)
    ELSE TRUE

WithScheme(s, colon) ==
    colon # 0 /\ AfterScheme(s, colon, Text(ToLowerCase(Slice(s, 1, colon - 1))))

TrimmedIsUrl(s) == IsAlpha(At(s, 1)) /\ WithScheme(s, SchemeEnd(s, 2))

\* whether new URL(raw) returns rather than throws a TypeError
IsUrl(raw) == TrimmedIsUrl(Trim(raw))

parseUrl(raw, key) ==
    IF IsUrl(raw) THEN Return(Str(raw), <<>>)
    ELSE Throw(EnvError(key, <<"Expected a valid URL, got \"" \o Text(raw) \o "\"">>), <<>>)

(***************************************************************************)
(* Configurations (src/src/index.ts 12-33)                                 *)
(***************************************************************************)
\* a property of a config object that is not given
Omitted == "<omitted>"

NoChoices == [given |-> FALSE, items |-> <<>>]
Choices(items) == [given |-> TRUE, items |-> items]

\* an EnvVarConfig; validate and transform name a user function, or are Omitted
EnvVarConfig(key, type, default, required, validate, transform, choices) ==
    [key |-> key, type |-> type, default |-> default, required |-> required,
     validate |-> validate, transform |-> transform, choices |-> choices]

\* a schema entry's value: a string, or a config object
Shorthand(str) ==
    [isString |-> TRUE, str |-> str,
     cfg |-> EnvVarConfig(Omitted, Omitted, Undefined, Undefined, Omitted, Omitted, NoChoices)]
FullConfig(cfg) == [isString |-> FALSE, str |-> "", cfg |-> cfg]

\* JavaScript truthiness of a string-valued property that may be omitted
Truthy(str) == str # Omitted /\ str # ""

\* JavaScript truthiness of a value
TruthyValue(v) ==
    CASE v.t = "boolean" -> v.b
      [] v.t = "number" -> v.n.k # "nan" /\ v.n.num # 0
      [] v.t = "string" -> v.s # <<>>
      [] v.t = "object" -> TRUE
      [] OTHER -> FALSE

(***************************************************************************)
(* User functions: the transform and validate callbacks a config may name. *)
(* A call gives [threw, value]: the value returned, or threw = TRUE when   *)
(* the function throws an Error that is not an EnvError.                   *)
(***************************************************************************)
Gave(v) == [threw |-> FALSE, value |-> v]
Threw == [threw |-> TRUE, value |-> Undefined]

\* "abs":          (v) => Math.abs(v)
\* "toUpperCase":  (v) => v.toUpperCase()     (a TypeError unless v is a string)
\* "throws":       (v) => { throw new Error() }
CallTransform(fn, v) ==
    CASE fn = "abs" -> Gave(Num(Abs(ToNumber(v))))
      [] fn = "toUpperCase" -> IF v.t = "string" THEN Gave(Str(ToUpperCase(v.s))) ELSE Threw
      [] fn = "throws" -> Threw

MustBePositive ==
    <<"M","u","s","t"," ","b","e"," ","p","o","s","i","t","i","v","e">>

\* what a validate function returns for a value that is, or is not, > 0
ValidateResult(fn, positive) ==
    CASE fn = "positive" -> Gave(Bool(positive))
      [] fn = "positiveOrMessage" -> IF positive THEN Gave(Bool(TRUE)) ELSE Gave(Str(MustBePositive))
      [] fn = "positiveOrEmpty" -> IF positive THEN Gave(Bool(TRUE)) ELSE Gave(Str(<<>>))
      [] fn = "noResult" -> Gave(Undefined)
      [] fn = "throws" -> Threw

\* "positive":          (v) => v > 0
\* "positiveOrMessage": (v) => v > 0 || "Must be positive"
\* "positiveOrEmpty":   (v) => v > 0 || ""
\* "noResult":          (v) => {}
\* "throws":            (v) => { throw new Error() }
CallValidate(fn, v) == ValidateResult(fn, GreaterThanInt(ToNumber(v), 0))

\* one entry of the record of user-function calls
Call(fn, arg) == [fn |-> fn, arg |-> arg]

(***************************************************************************)
(* Core (src/src/index.ts 119-202)                                         *)
(***************************************************************************)
validTypes == <<"string", "number", "boolean", "json", "url", "port", "enum">>

\* a normalizeConfig that takes a string that is no type name for the key
normalizeConfigStringIsKey(input, key) ==
    IF input.isString
    THEN IF Includes(validTypes, input.str)
         THEN EnvVarConfig(key, input.str, Undefined, Undefined, Omitted, Omitted, NoChoices)
         ELSE EnvVarConfig(input.str, "string", Undefined, Undefined, Omitted, Omitted, NoChoices)
    ELSE [input.cfg EXCEPT !.key = IF Truthy(input.cfg.key) THEN input.cfg.key ELSE key]

normalizeConfig(input, key) ==
    IF input.isString
    THEN IF Includes(validTypes, input.str)
         THEN EnvVarConfig(key, input.str, Undefined, Undefined, Omitted, Omitted, NoChoices)
         ELSE EnvVarConfig(key, "string", Undefined, Undefined, Omitted, Omitted, NoChoices)
    ELSE [input.cfg EXCEPT !.key = IF Truthy(input.cfg.key) THEN input.cfg.key ELSE key]

\* what normalizeConfig leaves of its argument: { ...input } copies, so the
\* caller's object is as it was
normalizeConfigArgument(input, key) == input

parseValue(raw, config) ==
    LET type == IF Truthy(config.type) THEN config.type ELSE "string"
        key  == config.key
    IN  CASE type = "string" -> parseString(raw)
          [] type = "number" -> parseNumber(raw, key)
          [] type = "boolean" -> parseBoolean(raw, key)
          [] type = "json" -> parseJson(raw, key)
          [] type = "url" -> parseUrl(raw, key)
          [] type = "port" -> parsePort(raw, key)
          [] type = "enum" -> parseString(raw)
          [] OTHER -> Return(Str(raw), <<>>)

\* src[config.key]: the raw string, or isUndefined
Lookup(src, key) ==
    IF key \in DOMAIN src THEN [isUndefined |-> FALSE, s |-> src[key]]
    ELSE [isUndefined |-> TRUE, s |-> <<>>]

\* raw === undefined || raw === ""
IsNotSet(raw) == raw.isUndefined \/ raw.s = <<>>

\* the outcome of a transform call t on value
Transformed(t, value) ==
    IF t.threw THEN Throw(Fault("transform"), <<Call("transform", value)>>)
    ELSE Return(t.value, <<Call("transform", value)>>)

\* env, the custom transform
envTransform(config, value) ==
    IF Truthy(config.transform)
    THEN Transformed(CallTransform(config.transform, value), value)
    ELSE Return(value, <<>>)

\* an env that falls back to the default only when the default is truthy
envNotSetTruthyDefault(config) ==
    IF TruthyValue(config.default) THEN Return(config.default, <<>>)
    ELSE IF config.required = Bool(FALSE) THEN Return(Undefined, <<>>)
    ELSE Throw(EnvError(config.key, <<"Required but not set">>), <<>>)

\* an env that runs the transform on the default
envNotSetTransformsDefault(config) ==
    IF config.default # Undefined THEN envTransform(config, config.default)
    ELSE IF config.required = Bool(FALSE) THEN Return(Undefined, <<>>)
    ELSE Throw(EnvError(config.key, <<"Required but not set">>), <<>>)

\* env, the branch for a raw value that is not set
envNotSet(config) ==
    IF config.default # Undefined THEN Return(config.default, <<>>)
    ELSE IF config.required = Bool(FALSE) THEN Return(Undefined, <<>>)
    ELSE Throw(EnvError(config.key, <<"Required but not set">>), <<>>)

\* an enum validation that lists the choices in reverse
envEnumReversed(config, value, raw) ==
    IF config.type = "enum" /\ config.choices.given
    THEN IF ~(value.t = "string" /\ Includes(config.choices.items, value.s))
         THEN Throw(EnvError(config.key,
                  <<"Expected one of ["
                    \o Join([i \in 1..Len(config.choices.items) |->
                               config.choices.items[Len(config.choices.items) + 1 - i]], ", ")
                    \o "], got \"" \o Text(raw) \o "\"">>), <<>>)
         ELSE Return(value, <<>>)
    ELSE Return(value, <<>>)

\* env, the enum validation
envEnum(config, value, raw) ==
    IF config.type = "enum" /\ config.choices.given
    THEN IF ~(value.t = "string" /\ Includes(config.choices.items, value.s))
         THEN Throw(EnvError(config.key,
                  <<"Expected one of [" \o Join(config.choices.items, ", ")
                    \o "], got \"" \o Text(raw) \o "\"">>), <<>>)
         ELSE Return(value, <<>>)
    ELSE Return(value, <<>>)

\* a custom validation that fails on every falsy result
ValidatedFalsy(config, value, r, made) ==
    IF r.threw THEN Throw(Fault("validate"), made)
    ELSE IF ~TruthyValue(r.value)
    THEN Throw(EnvError(config.key, <<"Failed custom validation">>), made)
    ELSE IF r.value.t = "string" THEN Throw(EnvError(config.key, <<Text(r.value.s)>>), made)
    ELSE Return(value, made)

\* the outcome of a validate call r on value, `made` the calls made by then
Validated(config, value, r, made) ==
    IF r.threw THEN Throw(Fault("validate"), made)
    ELSE IF r.value = Bool(FALSE)
    THEN Throw(EnvError(config.key, <<"Failed custom validation">>), made)
    ELSE IF r.value.t = "string" THEN Throw(EnvError(config.key, <<Text(r.value.s)>>), made)
    ELSE Return(value, made)

\* env, the custom validation and the final return
envValidate(config, value, calls) ==
    IF Truthy(config.validate)
    THEN Validated(config, value, CallValidate(config.validate, value),
                   Append(calls, Call("validate", value)))
    ELSE Return(value, calls)

\* the outcome t of the custom transform, then the custom validation
AfterTransform(config, t) ==
    IF ~Returned(t) THEN t ELSE envValidate(config, t.value, t.calls)

\* the outcome v of a custom validation made first, then the custom transform
AfterValidate(config, value, v, t) ==
    IF ~Returned(v) THEN v ELSE [t EXCEPT !.calls = v.calls \o t.calls]

\* an env that validates the parsed value and transforms afterwards
envValidateThenTransform(config, value) ==
    AfterValidate(config, value, envValidate(config, value, <<>>), envTransform(config, value))

\* env, from the custom transform to the return
envTransformValidate(config, value) == AfterTransform(config, envTransform(config, value))

\* env, after the enum validation, whose outcome is checked
envChecked(config, checked) ==
    IF ~Returned(checked) THEN checked ELSE envTransformValidate(config, checked.value)

\* an env that falls back to the default when the raw value does not parse
envParsedFallsBack(config, raw, parsed) ==
    IF ~Returned(parsed)
    THEN IF config.default # Undefined THEN Return(config.default, <<>>) ELSE parsed
    ELSE envChecked(config, envEnum(config, parsed.value, raw))

\* env, after parseValue, whose outcome is parsed
envParsed(config, raw, parsed) ==
    IF ~Returned(parsed) THEN parsed
    ELSE envChecked(config, envEnum(config, parsed.value, raw))

\* env, once raw = src[config.key] is read
envRaw(config, raw) ==
    IF IsNotSet(raw) THEN envNotSet(config)
    ELSE envParsed(config, raw.s, parseValue(raw.s, config))

\* env(config, source)
env(config, source) == envRaw(config, Lookup(source, config.key))

(***************************************************************************)
(* State.  envSchema is a loop over Object.entries(schema); env is a       *)
(* single call.                                                            *)
(*   schema  Object.entries(schema): the entries [name, input] in order    *)
(*   source  the source mapping, a function from the keys that are set     *)
(*   idx     how many entries the loop has been through                    *)
(*   config  the config env was last called with                           *)
(*   out     the outcome of that call                                      *)
(*   result, errors   the locals of envSchema                              *)
(*   pc      "env": an env call is pending, "done": it is over;            *)
(*           "loop": envSchema is in its loop, "returned" / "threw"        *)
(*   thrown  what envSchema threw                                          *)
(*   trace   the env calls made so far: [name, config, out]                *)
(*   declared  the schema as the caller passed it                          *)
(***************************************************************************)
VARIABLES schema, source, idx, config, out, result, errors, pc, thrown, trace, declared

vars == <<schema, source, idx, config, out, result, errors, pc, thrown, trace, declared>>

NoConfig == EnvVarConfig(Omitted, Omitted, Undefined, Undefined, Omitted, Omitted, NoChoices)
NoOutcome == [kind |-> "none", value |-> Undefined, error |-> NoError, calls |-> <<>>]
NoThrown == [name |-> "", errors |-> <<>>, message |-> ""]
EmptyObject == [n \in {} |-> Undefined]

(***************************************************************************)
(* Inputs                                                                  *)
(***************************************************************************)
\* the most entries a schema of the model has
MaxFields == 2

\* the entry names of a schema, in declaration order; none is an integer
\* index, so Object.entries gives them in this order
FieldNames == <<"A", "B", "C", "D">>

RawValues ==
    { <<"5">>, <<"-","5">>, <<"0">>, <<"-","1">>, <<"8","0","8","0">>,
      <<"6","5","5","3","5">>, <<"6","5","5","3","6">>, <<"9","9","9","9","9">>,
      <<"3",".","1","4">>, <<"8","0",".","0">>, <<"1","e","3">>, <<"0","x","5","0">>,
      <<" ">>, <<" ","8","0"," ">>,
      <<"a","b","c">>, <<"a">>, <<"b">>, <<"d">>,
      <<"t","r","u","e">>, <<"T","R","U","E">>, <<" ","Y","e","s"," ">>, <<"1">>, <<"o","n">>,
      <<"f","a","l","s","e">>, <<"N","O">>, <<"o","f","f">>, <<"m","a","y","b","e">>,
      <<"{","\"","a","\"",":","1","}">>,
      <<"h","t","t","p","s",":","/","/","e",".","c","o">> }

TypeValues == {Omitted, "string", "number", "boolean", "json", "url", "port", "enum"}

DefaultValues == {Undefined, Null, Num(Fin(0)), Bool(FALSE), Str(<<>>), Num(Fin(42))}

RequiredValues == {Undefined, Bool(TRUE), Bool(FALSE)}

TransformValues == {Omitted, "abs", "toUpperCase"}

ValidateValues ==
    {Omitted, "positive", "positiveOrMessage", "positiveOrEmpty", "noResult", "throws"}

ChoicesValues == {NoChoices, Choices(<<>>), Choices(<< <<"a">>, <<"b">>, <<"c">> >>)}

\* the key the single env call looks up
EnvKey == "V"

\* the sources of the single env call: V not set, set to "", or set to a raw value
EnvSources ==
    {[k \in {} |-> <<>>]} \cup {[k \in {EnvKey} |-> r] : r \in RawValues \cup {<<>>}}

\* the schema entry values of the model
SchemaInputs ==
    { Shorthand("number"),
      Shorthand("hello"),
      FullConfig(EnvVarConfig(Omitted, "port", Undefined, Undefined, Omitted, Omitted, NoChoices)),
      FullConfig(EnvVarConfig("C", "number", Undefined, Undefined, "positive", Omitted, NoChoices)),
      FullConfig(EnvVarConfig("", "number", Undefined, Undefined, Omitted, "toUpperCase", NoChoices)),
      FullConfig(EnvVarConfig(Omitted, Omitted, Undefined, Bool(FALSE), Omitted, Omitted, NoChoices)) }

SchemaKeys == {"A", "B", "C"}

SchemaRawValues == {<<"5">>, <<"a","b","c">>}

SchemaSources ==
    UNION {[set -> SchemaRawValues] : set \in SUBSET SchemaKeys}

(***************************************************************************)
(* env as a single call                                                    *)
(***************************************************************************)
EnvInit ==
    /\ config \in {EnvVarConfig(EnvKey, t, d, r, v, f, c) :
                     t \in TypeValues, d \in DefaultValues, r \in RequiredValues,
                     v \in ValidateValues, f \in TransformValues, c \in ChoicesValues}
    /\ source \in EnvSources
    /\ pc = "env"
    /\ out = NoOutcome
    /\ schema = <<>>
    /\ declared = <<>>
    /\ idx = 0
    /\ result = EmptyObject
    /\ errors = <<>>
    /\ thrown = NoThrown
    /\ trace = <<>>

\* env(config, source) is called and returns or throws
EnvCall ==
    /\ pc = "env"
    /\ out' = env(config, source)
    /\ pc' = "done"
    /\ trace' = Append(trace, [name |-> config.key, config |-> config, out |-> out'])
    /\ UNCHANGED <<schema, declared, source, idx, config, result, errors, thrown>>

EnvNext == EnvCall

EnvSpec == EnvInit /\ [][EnvNext]_vars

(***************************************************************************)
(* envSchema (src/src/index.ts 228-253)                                    *)
(***************************************************************************)
Init ==
    /\ \E n \in 0..MaxFields :
         schema \in {[i \in 1..n |-> [name |-> FieldNames[i], input |-> f[i]]] :
                       f \in [1..n -> SchemaInputs]}
    /\ declared = schema
    /\ source \in SchemaSources
    /\ pc = "loop"
    /\ idx = 0
    /\ config = NoConfig
    /\ out = NoOutcome
    /\ result = EmptyObject
    /\ errors = <<>>
    /\ thrown = NoThrown
    /\ trace = <<>>

\* the entry the loop is at
Entry == schema[idx + 1]

\* const config = normalizeConfig(rawConfig, name)
EntryConfig == normalizeConfig(Entry.input, Entry.name)

\* one iteration calls env: config = normalizeConfig(rawConfig, name), then
\* env(config, source), whose outcome is out'; the caller's schema is as
\* normalizeConfig left it
Iterate ==
    /\ pc = "loop" /\ idx < Len(schema)
    /\ config' = EntryConfig
    /\ out' = env(EntryConfig, source)
    /\ trace' = Append(trace, [name |-> Entry.name, config |-> config', out |-> out'])
    /\ schema' = [schema EXCEPT
                    ![idx + 1].input = normalizeConfigArgument(Entry.input, Entry.name)]
    /\ UNCHANGED <<source, declared>>

\* an envSchema that keeps only the last EnvError
CollectedLast(errs, e) == <<e>>

\* the errors collected once the EnvError e is caught: errors.push(err)
Collected(errs, e) == Append(errs, e)

\* one iteration in which env returns: result[name] = env(config, source)
Record ==
    /\ Iterate
    /\ Returned(out')
    /\ result' = (Entry.name :> out'.value) @@ result
    /\ idx' = idx + 1
    /\ UNCHANGED <<errors, pc, thrown>>

\* one iteration in which env throws an EnvError: errors.push(err)
Collect ==
    /\ Iterate
    /\ ThrewEnvError(out')
    /\ errors' = Collected(errors, out'.error)
    /\ idx' = idx + 1
    /\ UNCHANGED <<result, pc, thrown>>

\* an envSchema that catches every error: the fault is collected with the
\* EnvErrors and the loop goes on
RethrowCollects ==
    /\ Iterate
    /\ ThrewFault(out')
    /\ errors' = Append(errors, out'.error)
    /\ idx' = idx + 1
    /\ UNCHANGED <<result, pc, thrown>>

\* one iteration in which env throws something else: throw err
Rethrow ==
    /\ Iterate
    /\ ThrewFault(out')
    /\ thrown' = [name |-> out'.error.name, errors |-> <<>>, message |-> out'.error.message]
    /\ pc' = "threw"
    /\ UNCHANGED <<result, errors, idx>>

\* after the loop: throw new EnvValidationError(errors)
ThrowValidationError ==
    /\ pc = "loop" /\ idx = Len(schema)
    /\ Len(errors) > 0
    /\ thrown' = EnvValidationError(errors)
    /\ pc' = "threw"
    /\ UNCHANGED <<schema, declared, source, idx, config, out, result, errors, trace>>

\* after the loop: return result
ReturnResult ==
    /\ pc = "loop" /\ idx = Len(schema)
    /\ ~(Len(errors) > 0)
    /\ pc' = "returned"
    /\ UNCHANGED <<schema, declared, source, idx, config, out, result, errors, thrown, trace>>

Next == Record \/ Collect \/ Rethrow \/ ThrowValidationError \/ ReturnResult

Spec == Init /\ [][Next]_vars

(***************************************************************************)
(* Properties of env, checked under EnvSpec in the state after the call    *)
(***************************************************************************)
\* the raw value the call looked up
Raw == Lookup(source, config.key)

Called == pc = "done"

\* the raw value is present and not empty
Present == ~Raw.isUndefined /\ Raw.s # <<>>

\* env threw an EnvError for config.key whose only message is msg
FailedWith(msg) ==
    /\ out.kind = "throw"
    /\ out.error.name = "EnvError"
    /\ out.error.key = config.key
    /\ out.error.errors = <<msg>>

\* C2: when the raw value is absent or the empty string, env returns the
\* default if it is anything but undefined (0, false and "" included), else
\* returns undefined if required is explicitly false, else throws an EnvError
\* for config.key whose only message is "Required but not set"
C2_NotSetResolution ==
    (Called /\ (Raw.isUndefined \/ Raw.s = <<>>)) =>
        IF config.default # Undefined
        THEN out.kind = "return" /\ out.value = config.default
        ELSE IF config.required = Bool(FALSE)
        THEN out.kind = "return" /\ out.value = Undefined
        ELSE FailedWith("Required but not set")

\* the empty string with the falsy default 0: the default is returned
C2_Witness ==
    /\ Called
    /\ ~Raw.isUndefined /\ Raw.s = <<>>
    /\ config.default = Num(Fin(0))
    /\ out.kind = "return" /\ out.value = Num(Fin(0))

\* the raw value passes the enum membership check, where there is one
InChoices ==
    (config.type = "enum" /\ config.choices.given)
        => \E i \in 1..Len(config.choices.items) : config.choices.items[i] = Raw.s

\* C3: transform and validate are invoked only for a value parsed from a
\* present, non-empty raw string that passed the type parser and the enum
\* membership check: not when the default or undefined is returned, not
\* when the field is required but not set, not after a type mismatch, not
\* after an enum membership failure
C3_CallbacksOnlyForParsed ==
    (Called /\ out.calls # <<>>) =>
        /\ Present
        /\ parseValue(Raw.s, config).kind = "return"
        /\ InChoices

\* both callbacks were invoked, for a raw value that is present
C3_Witness ==
    /\ Called
    /\ Present
    /\ Len(out.calls) = 2
    /\ out.kind = "return"

\* C4: with transform and validate both configured and a raw value that
\* parses, transform is called first with the parsed value, validate is
\* called next with the transformed value, and on success the transformed
\* value is returned; type number, raw "-5", transform abs, validate > 0
\* gives 5
C4_TransformBeforeValidate ==
    (/\ Called /\ Present /\ InChoices
     /\ config.transform # Omitted /\ config.validate # Omitted
     /\ parseValue(Raw.s, config).kind = "return") =>
        /\ Len(out.calls) >= 1
        /\ out.calls[1] = Call("transform", parseValue(Raw.s, config).value)
        /\ ~CallTransform(config.transform, out.calls[1].arg).threw =>
              /\ Len(out.calls) = 2
              /\ out.calls[2] = Call("validate",
                                     CallTransform(config.transform, out.calls[1].arg).value)
              /\ out.kind = "return" => out.value = out.calls[2].arg
        /\ (/\ config.type = "number" /\ Raw.s = <<"-", "5">>
            /\ config.transform = "abs" /\ config.validate = "positive") =>
              out.kind = "return" /\ out.value = Num(Fin(5))

\* type number, raw "-5", transform abs, validate > 0: 5 is returned
C4_Witness ==
    /\ Called
    /\ config.type = "number" /\ Raw.s = <<"-", "5">>
    /\ config.transform = "abs" /\ config.validate = "positive"
    /\ out.calls = <<Call("transform", Num(Fin(-5))), Call("validate", Num(Fin(5)))>>
    /\ out.kind = "return" /\ out.value = Num(Fin(5))

\* validate was called, and returned this
ValidateCalled ==
    /\ Called /\ out.calls # <<>>
    /\ out.calls[Len(out.calls)].fn = "validate"
    /\ ~CallValidate(config.validate, out.calls[Len(out.calls)].arg).threw

ValidateReturned == CallValidate(config.validate, out.calls[Len(out.calls)].arg).value

\* C5 as stated: validate's false fails with "Failed custom validation", a
\* non-empty string fails with that string, anything else is success
C5_Original ==
    ValidateCalled =>
        IF ValidateReturned = Bool(FALSE) THEN FailedWith("Failed custom validation")
        ELSE IF ValidateReturned.t = "string" /\ ValidateReturned.s # <<>>
        THEN FailedWith(Text(ValidateReturned.s))
        ELSE out.kind = "return" /\ out.value = out.calls[Len(out.calls)].arg

\* C5, amended: validate's false fails with an EnvError for config.key whose
\* only message is "Failed custom validation"; any string, the empty string
\* included, fails with an EnvError whose only message is that string;
\* anything else (true, undefined) is success and the value is returned
C5_ValidateResult ==
    ValidateCalled =>
        IF ValidateReturned = Bool(FALSE) THEN FailedWith("Failed custom validation")
        ELSE IF ValidateReturned.t = "string" THEN FailedWith(Text(ValidateReturned.s))
        ELSE out.kind = "return" /\ out.value = out.calls[Len(out.calls)].arg

\* validate returned the empty string and env threw an EnvError with the
\* empty message
C5_Witness ==
    /\ ValidateCalled
    /\ ValidateReturned = Str(<<>>)
    /\ FailedWith("")

\* no transform and no validate are configured: env returns what it parsed
Plain == config.transform = Omitted /\ config.validate = Omitted

\* what out is when the value v went on from the enum check: it is the first
\* argument a callback got, or, with no callback, what env returned
WentOn(v) ==
    IF out.calls # <<>> THEN out.calls[1].arg = v
    ELSE out.kind = "return" /\ out.value = v

\* the text that lists the choices of the model in the given order
ChoicesText ==
    CASE config.choices.items = <<>> -> ""
      [] config.choices.items = << <<"a">>, <<"b">>, <<"c">> >> -> "a, b, c"

\* C6: for type enum with choices and a present raw value, the raw string is
\* accepted unchanged (it is what transform, validate or the caller gets) if
\* and only if it is a member of choices; otherwise env throws an EnvError
\* for config.key whose message lists all choices in the given order and
\* embeds the raw value.  With type enum and no choices there is no
\* membership check: every non-empty raw string is accepted
C6_EnumMembership ==
    (Called /\ Present /\ config.type = "enum") =>
        IF config.choices.given
        THEN IF \E i \in 1..Len(config.choices.items) : config.choices.items[i] = Raw.s
             THEN WentOn(Str(Raw.s))
             ELSE /\ FailedWith("Expected one of [" \o ChoicesText \o "], got \""
                                \o Text(Raw.s) \o "\"")
                  /\ out.calls = <<>>
        ELSE WentOn(Str(Raw.s))

\* raw "d" is no member of [a, b, c]: the EnvError lists a, b, c and embeds d
C6_Witness ==
    /\ Called
    /\ config.type = "enum"
    /\ config.choices.items = << <<"a">>, <<"b">>, <<"c">> >>
    /\ Raw.s = <<"d">>
    /\ FailedWith("Expected one of [a, b, c], got \"d\"")

\* the raw value denotes an integer: it has something besides white space and
\* its numeric value is an integer
DenotesInteger == Trim(Raw.s) # <<>> /\ IsInteger(StringToNumber(Raw.s))

\* the raw value denotes an integer n with 0 <= n <= 65535
DenotesPort ==
    /\ DenotesInteger
    /\ ~LessThanInt(StringToNumber(Raw.s), 0)
    /\ ~GreaterThanInt(StringToNumber(Raw.s), 65535)

\* C7: for type port and a present raw value, env succeeds if and only if
\* the raw value denotes an integer n with 0 <= n <= 65535, and then returns
\* n; every non-numeric, non-integer or out-of-range raw value fails with an
\* EnvError for config.key; "0" and "65535" succeed
C7_PortRange ==
    (Called /\ Present /\ config.type = "port" /\ Plain) =>
        IF DenotesPort
        THEN out.kind = "return" /\ out.value = Num(StringToNumber(Raw.s))
        ELSE /\ out.kind = "throw"
             /\ out.error.name = "EnvError"
             /\ out.error.key = config.key

\* the raw value, lower-cased and trimmed, as text
Literal == Text(Trim(ToLowerCase(Raw.s)))

\* C8: for type boolean and a present raw value, lower-cased and trimmed,
\* true, 1, yes, on yield true and false, 0, no, off yield false; every
\* other literal fails with an EnvError for config.key that embeds the raw
\* string.  The two accepted sets are disjoint
C8_BooleanLiterals ==
    /\ (Called /\ Present /\ config.type = "boolean") =>
          IF Literal \in {"true", "1", "yes", "on"} THEN WentOn(Bool(TRUE))
          ELSE IF Literal \in {"false", "0", "no", "off"} THEN WentOn(Bool(FALSE))
          ELSE /\ FailedWith("Expected a boolean, got \"" \o Text(Raw.s)
                             \o "\". Use true/false, 1/0, yes/no, or on/off")
               /\ out.calls = <<>>
    /\ {TrueLiterals[i] : i \in 1..Len(TrueLiterals)}
         \cap {FalseLiterals[i] : i \in 1..Len(FalseLiterals)} = {}

\* raw " Yes " yields true
C8_Witness ==
    /\ Called
    /\ config.type = "boolean"
    /\ Raw.s = <<" ", "Y", "e", "s", " ">>
    /\ Plain
    /\ out.kind = "return" /\ out.value = Bool(TRUE)

(***************************************************************************)
(* Properties of envSchema, checked under Spec                             *)
(***************************************************************************)
Finished == pc \in {"returned", "threw"}

\* the env call of trace entry t failed with an EnvError
IsFailure(t) == t.out.kind = "throw" /\ t.out.error.name = "EnvError"

\* the env call of trace entry t raised a fault that is no EnvError
IsFault(t) == t.out.kind = "throw" /\ t.out.error.name # "EnvError"

NoFault == \A i \in 1..Len(trace) : ~IsFault(trace[i])

\* the key a declared entry is looked up under
LookupKey(entry) ==
    IF entry.input.isString \/ entry.input.cfg.key \in {Omitted, ""}
    THEN entry.name
    ELSE entry.input.cfg.key

\* the EnvErrors of the failing entries, in declaration order
Failures == SelectSeq(trace, IsFailure)

\* C1: envSchema never short-circuits on a field failure.  When no fault
\* other than an EnvError occurs, every schema entry is resolved, in order;
\* if at least one entry fails, envSchema returns nothing and throws one
\* EnvValidationError whose errors are exactly the EnvErrors of the failing
\* entries, each with its entry's lookup key, in declaration order; if none
\* fails it returns a mapping with one entry per schema name
C1_CollectsAllErrors ==
    (Finished /\ NoFault) =>
        /\ Len(trace) = Len(declared)
        /\ \A i \in 1..Len(trace) : trace[i].name = declared[i].name
        /\ \A i \in 1..Len(trace) :
              IsFailure(trace[i]) => trace[i].out.error.key = LookupKey(declared[i])
        /\ IF \E i \in 1..Len(trace) : IsFailure(trace[i])
           THEN /\ pc = "threw"
                /\ thrown.name = "EnvValidationError"
                /\ thrown.errors # <<>>
                /\ thrown.errors = [i \in 1..Len(Failures) |-> Failures[i].out.error]
           ELSE /\ pc = "returned"
                /\ thrown = NoThrown
                /\ DOMAIN result = {declared[i].name : i \in 1..Len(declared)}
                /\ \A i \in 1..Len(trace) : result[trace[i].name] = trace[i].out.value

\* two entries failed and the EnvValidationError holds both EnvErrors
C1_Witness ==
    /\ pc = "threw"
    /\ thrown.name = "EnvValidationError"
    /\ Len(trace) >= 2
    /\ IsFailure(trace[1]) /\ IsFailure(trace[2])
    /\ Len(thrown.errors) >= 2
    /\ thrown.errors[1].key = LookupKey(declared[1])
    /\ thrown.errors[2].key = LookupKey(declared[2])

TypeNames == {"string", "number", "boolean", "json", "url", "port", "enum"}

\* the explicit form of a declared entry: { key: name, type: T } for the
\* bare type name T, { key: name, type: "string" } for any other string, and
\* a full config with its key, or with the entry name for its key
ExplicitForm(entry) ==
    IF entry.input.isString
    THEN [key |-> entry.name,
          type |-> IF entry.input.str \in TypeNames THEN entry.input.str ELSE "string",
          default |-> Undefined, required |-> Undefined,
          validate |-> Omitted, transform |-> Omitted, choices |-> NoChoices]
    ELSE [entry.input.cfg EXCEPT !.key = LookupKey(entry)]

C10_FaultPropagates ==
    \A i \in 1..Len(trace) :
        IsFault(trace[i]) =>
            /\ i = Len(trace)
            /\ pc = "threw"
            /\ thrown.name = trace[i].out.error.name
            /\ thrown.name # "EnvValidationError"
            /\ thrown.message = trace[i].out.error.message
            /\ \A j \in 1..Len(errors) : errors[j].name = "EnvError"

\* the second entry raised a fault after the first had failed with an
\* EnvError: the fault is thrown, the EnvError is dropped
C10_Witness ==
    /\ pc = "threw"
    /\ Len(declared) >= 2
    /\ Len(trace) = 2
    /\ IsFailure(trace[1])
    /\ IsFault(trace[2])
    /\ Len(errors) = 1
    /\ thrown.name = "Error"

(***************************************************************************)
(* A present raw value and the default, checked under EnvSpec              *)
(***************************************************************************)
\* the config of the call with no default and no required
WithoutDefault == [config EXCEPT !.default = Undefined, !.required = Undefined]

\* C11: a present, non-empty raw value always overrides the default: the
\* outcome of env is what the parse / enum / transform / validate pipeline
\* gives on that raw value, the same whatever the default (and required)
\* is, so the default is never a fallback: a raw value that does not parse,
\* or is no member of the choices, fails with an EnvError for config.key
\* also when a default is configured
C11_PresentOverridesDefault ==
    (Called /\ Present) =>
        /\ out = env(WithoutDefault, source)
        /\ parseValue(Raw.s, config).kind # "return" =>
              /\ out.kind = "throw"
              /\ out.error.name = "EnvError"
              /\ out.error.key = config.key
              /\ out.calls = <<>>
        /\ ~InChoices =>
              /\ out.kind = "throw"
              /\ out.error.name = "EnvError"
              /\ out.error.key = config.key
        /\ (Plain /\ InChoices /\ parseValue(Raw.s, config).kind = "return") =>
              out.kind = "return" /\ out.value = parseValue(Raw.s, config).value

\* type number with default 42 and raw "abc": env throws, 42 is not returned
C11_Witness ==
    /\ Called
    /\ config.type = "number"
    /\ config.default = Num(Fin(42))
    /\ Raw.s = <<"a", "b", "c">>
    /\ FailedWith("Expected a number, got \"abc\"")

====
